---- MODULE Spec2Model ----
(***************************************************************************)
(* applecrate: a model of the installer build (applecrate/build.py), of    *)
(* the command line build command (applecrate/cli.py) and of the           *)
(* validation helpers they use.                                            *)
(*                                                                         *)
(* Strings whose characters matter (chmod modes, file names) are sequences *)
(* of one-character strings.  Python's None is the string "None".          *)
(***************************************************************************)
EXTENDS Integers, Sequences, FiniteSets, TLC

VARIABLES
    pc,       \* position of the running operation
    entry,    \* "lib" (build_installer) or "cli" (the build command)
    args,     \* keyword arguments of the call / options of the command line
    toml,     \* the [tool.applecrate] table of pyproject.toml
    onPath,   \* the native tools shutil.which / subprocess can resolve
    cfg,      \* the validated (and merged) configuration
    tree,     \* entries of the build directory
    fsops,    \* operations performed on the build directory so far
    calls,    \* native tool invocations so far, in order
    err,      \* the exception that ended the build, or NoErr
    stages,   \* stages completed so far, in order
    out,      \* what was copied to the output path, or None
    fnArg,    \* argument of the helper function under study
    fnRet     \* its result

vars == <<pc, entry, args, toml, onPath, cfg, tree, fsops, calls, err, stages, out, fnArg, fnRet>>

None == "None"

(***************************************************************************)
(* Results of a Python call: a returned value or a raised exception.       *)
(***************************************************************************)
Return(v) == [ok |-> TRUE, value |-> v]
Raise(exc, msg) == [ok |-> FALSE, exc |-> exc, msg |-> msg]
\* no call has been made yet
Pending == [ok |-> FALSE, exc |-> None, msg |-> None]

\* an optional list argument: None, or a list (possibly empty)
NoneList == [none |-> TRUE, items |-> <<>>]
List(s) == [none |-> FALSE, items |-> s]
\* Python's truth value of an optional list
Truthy(l) == ~l.none /\ l.items # <<>>

(***************************************************************************)
(* Bounds of the model.                                                    *)
(***************************************************************************)
MaxModeLen == 4
\* how many arguments, configuration entries or facts of the environment
\* depart from the plain call build_installer(app, version) on a machine
\* that has every tool
MaxDeviations == 2
\* the longest identity text tried after the head of a sign value
MaxIdLen == 3

(***************************************************************************)
(* Characters and strings.                                                 *)
(***************************************************************************)
\* the ten ASCII digits, by value
AsciiDigits == <<"0", "1", "2", "3", "4", "5", "6", "7", "8", "9">>

\* the characters of the model for which str.isdigit() is true;
\* "sup2" stands for U+00B2 (superscript two), a non-ASCII digit
DigitChars == {AsciiDigits[i] : i \in 1..10} \cup {"sup2"}

OctalChars == {AsciiDigits[i] : i \in 1..8}

\* all strings over the characters S of length at most n
StringsUpTo(S, n) == UNION {[1..k -> S] : k \in 0..n}

\* str.isdigit(): every character is a digit and there is at least one
isdigit(s) == Len(s) > 0 /\ \A i \in 1..Len(s) : s[i] \in DigitChars

RECURSIVE IntToStr(_)
\* str(n) for an int n
IntToStr(n) ==
    IF n < 0 THEN <<"-">> \o IntToStr(0 - n)
    ELSE IF n < 10 THEN <<AsciiDigits[n + 1]>>
    ELSE Append(IntToStr(n \div 10), AsciiDigits[(n % 10) + 1])

\* str(mode): a mode is given as a str or as an int
StrOfMode(mode) == IF mode.t = "int" THEN IntToStr(mode.n) ELSE mode.s

\* pathlib.Path.is_absolute() on a POSIX path given by its characters or by
\* its parts: it starts with a root, "/" or (for a path written with exactly
\* two leading slashes) the part "//"
is_absolute(p) == Len(p) > 0 /\ p[1] \in {"/", "//"}

(***************************************************************************)
(* validate_chmod (build.py)                                               *)
(***************************************************************************)
\* check_chmod_directive without the check of the mode's length
no_length_check(d) ==
    LET mode == StrOfMode(d.mode)
    IN  IF ~is_absolute(d.path) THEN "Chmod path must be an absolute path"
        ELSE IF ~isdigit(mode) THEN "Chmod mode must be an octal number"
        ELSE "ok"

\* the loop body of validate_chmod for one (mode, path) pair: the first
\* check that fails, or "ok"
check_chmod_directive(d) ==
    LET mode == StrOfMode(d.mode)
    IN  IF ~is_absolute(d.path) THEN "Chmod path must be an absolute path"
        ELSE IF ~isdigit(mode) THEN "Chmod mode must be an octal number"
        ELSE IF Len(mode) \notin {3, 4} THEN "Chmod mode must be 3 or 4 octal digits"
        ELSE "ok"

RECURSIVE validate_chmod_loop(_, _)
validate_chmod_loop(chmod, new_chmod) ==
    IF chmod = <<>> THEN Return(List(new_chmod))
    ELSE LET c == check_chmod_directive(Head(chmod))
         IN  IF c # "ok" THEN Raise("ValueError", c)
             ELSE validate_chmod_loop(Tail(chmod),
                      Append(new_chmod, [mode |-> StrOfMode(Head(chmod).mode),
                                         path |-> Head(chmod).path]))

\* validate_chmod: None for no directives, else the normalised list, or
\* ValueError at the first bad directive
validate_chmod(chmod) ==
    IF ~Truthy(chmod) THEN Return(NoneList)
    ELSE validate_chmod_loop(chmod.items, <<>>)

(***************************************************************************)
(* Inputs of validate_chmod.                                               *)
(***************************************************************************)
ModeChars == {"0", "5", "7", "8", "9", "x", "sup2"}

\* a mode given as a str, and a mode given as an int
StrMode(s) == [t |-> "str", s |-> s, n |-> 0]
IntMode(n) == [t |-> "int", s |-> <<>>, n |-> n]

StrModes == {StrMode(s) : s \in StringsUpTo(ModeChars, MaxModeLen)}
IntModes == {IntMode(n) : n \in {0 - 755, 0, 75, 493, 755, 788, 1755, 10755}}

AbsPath == <<"/", "a">>
RelPath == <<"a">>

Mode755  == StrMode(<<"7", "5", "5">>)
Mode0755 == StrMode(<<"0", "7", "5", "5">>)
Mode788  == StrMode(<<"7", "8", "8">>)
Mode0999 == StrMode(<<"0", "9", "9", "9">>)

\* a directive that passes every check, to stand before or after another one
GoodDirective == [mode |-> Mode755, path |-> AbsPath]

\* the lists of directives tried: none, one directive d, or d with
\* GoodDirective before or after it
ChmodShapes == {"None", "empty", "one", "after_good", "before_good"}

ChmodInput(shape, d) ==
    CASE shape = "None" -> NoneList
      [] shape = "empty" -> List(<<>>)
      [] shape = "one" -> List(<<d>>)
      [] shape = "after_good" -> List(<<GoodDirective, d>>)
      [] shape = "before_good" -> List(<<d, GoodDirective>>)

(***************************************************************************)
(* The build is not running while a helper function is studied.            *)
(***************************************************************************)
NoErr == [kind |-> None, exc |-> None, msg |-> None, stderr |-> None]
NoCfg == [valid |-> FALSE]

BuildIdle ==
    /\ entry = None
    /\ args = None
    /\ toml = None
    /\ onPath = {}
    /\ cfg = NoCfg
    /\ tree = {}
    /\ fsops = <<>>
    /\ calls = <<>>
    /\ err = NoErr
    /\ stages = <<>>
    /\ out = None

buildVars == <<entry, args, toml, onPath, cfg, tree, fsops, calls, err, stages, out>>

(***************************************************************************)
(* SpecChmod: validate_chmod applied to every input of ChmodInputs.        *)
(***************************************************************************)
InitChmod ==
    /\ pc = "chmod:call"
    /\ \E shape \in ChmodShapes, p \in {AbsPath, RelPath} :
          \/ \E m \in StrModes : fnArg = ChmodInput(shape, [mode |-> m, path |-> p])
          \/ \E m \in IntModes : fnArg = ChmodInput(shape, [mode |-> m, path |-> p])
    /\ fnRet = Pending
    /\ BuildIdle

CallValidateChmod ==
    /\ pc = "chmod:call"
    /\ fnRet' = validate_chmod(fnArg)
    /\ pc' = "chmod:done"
    /\ UNCHANGED <<fnArg, buildVars>>

NextChmod == CallValidateChmod

SpecChmod == InitChmod /\ [][NextChmod]_vars

\* the directives of the call under study
ChmodDirectives == {fnArg.items[i] : i \in 1..Len(fnArg.items)}

HasNonDigit(s) == \E i \in 1..Len(s) : s[i] \notin DigitChars

\* C8: validate_chmod rejects every list holding a directive whose mode
\* string is not 3 or 4 characters long or holds a non-digit character, and
\* accepts the modes "755" and "0755" given with an absolute path.
C8_ChmodLengthAndDigits ==
    pc = "chmod:done" =>
        /\ (\E d \in ChmodDirectives :
                \/ Len(StrOfMode(d.mode)) \notin {3, 4}
                \/ HasNonDigit(StrOfMode(d.mode)))
              => (~fnRet.ok /\ fnRet.exc = "ValueError")
        /\ (fnArg \in {List(<<[mode |-> m, path |-> AbsPath]>>) : m \in {Mode755, Mode0755}})
              => (fnRet.ok /\ fnRet.value = List(<<[mode |-> fnArg.items[1].mode.s, path |-> AbsPath]>>))

C8_Witness ==
    /\ pc = "chmod:done"
    /\ fnArg = List(<<GoodDirective, [mode |-> StrMode(<<"7", "5">>), path |-> AbsPath]>>)
    /\ ~fnRet.ok

\* C9: every mode of an accepted chmod list is octal (each digit in 0..7).
C9_AcceptedModesAreOctal ==
    (pc = "chmod:done" /\ fnRet.ok) =>
        \A d \in ChmodDirectives :
            \A i \in 1..Len(StrOfMode(d.mode)) : StrOfMode(d.mode)[i] \in OctalChars

(***************************************************************************)
(* validate_optional_path_exists / validate_optional_path_extension        *)
(* (build.py).  An optional path argument is given or None; a given path   *)
(* has a file name (its characters) and exists on disk or not.             *)
(***************************************************************************)
NonePath == [given |-> FALSE, name |-> <<>>, exists |-> FALSE]
PathArg(name, exists) == [given |-> TRUE, name |-> name, exists |-> exists]

LowerCase == <<"a", "b", "c", "d", "e", "f", "g", "h", "i", "j", "k", "l", "m",
               "n", "o", "p", "q", "r", "s", "t", "u", "v", "w", "x", "y", "z">>
UpperCase == <<"A", "B", "C", "D", "E", "F", "G", "H", "I", "J", "K", "L", "M",
               "N", "O", "P", "Q", "R", "S", "T", "U", "V", "W", "X", "Y", "Z">>

\* str.lower() and str.upper() of one character, then of a string
LowerChar(c) ==
    IF \E i \in 1..26 : UpperCase[i] = c
    THEN LowerCase[CHOOSE i \in 1..26 : UpperCase[i] = c]
    ELSE c
UpperChar(c) ==
    IF \E i \in 1..26 : LowerCase[i] = c
    THEN UpperCase[CHOOSE i \in 1..26 : LowerCase[i] = c]
    ELSE c
lower(s) == [i \in 1..Len(s) |-> LowerChar(s[i])]

\* str.rfind("."): the last index of "." (from 0), or -1
rfind_dot(name) ==
    LET dots == {i \in 1..Len(name) : name[i] = "."}
    IN  IF dots = {} THEN 0 - 1
        ELSE (CHOOSE i \in dots : \A j \in dots : j <= i) - 1

\* pathlib.PurePath.suffix: the name from its last "." on, unless that "."
\* is the first or the last character of the name
suffix(name) ==
    LET i == rfind_dot(name)
    IN  IF 0 < i /\ i < Len(name) - 1 THEN SubSeq(name, i + 1, Len(name)) ELSE <<>>

\* `not arg` for an optional path argument: None or the empty string
NotArg(arg) == ~arg.given \/ arg.name = <<>>

validate_optional_path_exists(arg, name) ==
    IF NotArg(arg) THEN Return(NonePath)
    ELSE IF ~arg.exists THEN Raise("FileNotFoundError", name)
    ELSE Return(arg)

validate_optional_path_extension(path, name, extension) ==
    LET r == validate_optional_path_exists(path, name)
    IN  IF ~r.ok THEN r
        ELSE IF ~r.value.given THEN Return(NonePath)
        ELSE IF lower(suffix(r.value.name)) \notin extension THEN Raise("ValueError", name)
        ELSE r

ExtMd       == <<".", "m", "d">>
ExtMarkdown == <<".", "m", "a", "r", "k", "d", "o", "w", "n">>
ExtHtml     == <<".", "h", "t", "m", "l">>
ExtSh       == <<".", "s", "h">>
ExtPng      == <<".", "p", "n", "g">>
ExtTxt      == <<".", "t", "x", "t">>

\* the fields build_installer validates with validate_optional_path_extension
\* and the extension list it passes for each
ExtensionFields == {"welcome", "conclusion", "uninstall", "banner", "post_install", "pre_install"}

build_installer_extensions(field) ==
    CASE field \in {"welcome", "conclusion"} -> {ExtMd, ExtHtml}
      [] field \in {"uninstall", "post_install", "pre_install"} -> {ExtSh}
      [] field = "banner" -> {ExtPng}

(***************************************************************************)
(* SpecExt: validate_optional_path_extension applied, for each field of    *)
(* ExtensionFields, to file names built from the extensions in every       *)
(* mixture of upper and lower case.                                        *)
(***************************************************************************)
ExtWords == {ExtMd, ExtMarkdown, ExtHtml, ExtSh, ExtPng, ExtTxt}

\* the word w with the characters at the positions of mask in upper case
WithCase(w, mask) == [i \in 1..Len(w) |-> IF mask[i] THEN UpperChar(w[i]) ELSE w[i]]

\* file names around an extension e: "w" + e, the hidden file e, "w.md" + e,
\* "w" + e + ".", and e without its dot
NameForms == {"plain", "hidden", "double", "trailing_dot", "no_dot"}

FileName(form, e) ==
    CASE form = "plain" -> <<"w">> \o e
      [] form = "hidden" -> e
      [] form = "double" -> <<"w">> \o ExtMd \o e
      [] form = "trailing_dot" -> <<"w">> \o e \o <<".">>
      [] form = "no_dot" -> <<"w">> \o Tail(e)

InitExt ==
    /\ pc = "ext:call"
    /\ \E field \in ExtensionFields :
          \/ fnArg = [field |-> field, path |-> NonePath]
          \/ fnArg = [field |-> field, path |-> PathArg(<<>>, FALSE)]
          \/ \E w \in ExtWords, form \in NameForms, exists \in BOOLEAN :
                \E mask \in [1..Len(w) -> BOOLEAN] :
                    fnArg = [field |-> field,
                             path |-> PathArg(FileName(form, WithCase(w, mask)), exists)]
    /\ fnRet = Pending
    /\ BuildIdle

CallValidateExtension ==
    /\ pc = "ext:call"
    /\ fnRet' = validate_optional_path_extension(fnArg.path, fnArg.field,
                                                 build_installer_extensions(fnArg.field))
    /\ pc' = "ext:done"
    /\ UNCHANGED <<fnArg, buildVars>>

NextExt == CallValidateExtension

SpecExt == InitExt /\ [][NextExt]_vars

\* the extensions the specification allows for each field
ClaimedExtensions(field) ==
    CASE field \in {"welcome", "conclusion"} -> {ExtMd, ExtMarkdown, ExtHtml}
      [] field \in {"uninstall", "post_install", "pre_install"} -> {ExtSh}
      [] field = "banner" -> {ExtPng}

\* C10: an existing welcome or conclusion file is accepted if and only if
\* its suffix in lower case is .md, .markdown or .html; an existing
\* uninstall, pre_install or post_install file if and only if it is .sh, and
\* an existing banner if and only if it is .png.
C10_ExtensionsCaseInsensitive ==
    (pc = "ext:done" /\ ~NotArg(fnArg.path) /\ fnArg.path.exists) =>
        (fnRet.ok <=> lower(suffix(fnArg.path.name)) \in ClaimedExtensions(fnArg.field))

(***************************************************************************)
(* Configuration sources of the build command (cli.py).  A mapping gives  *)
(* every key a value; Absent marks a key the mapping does not hold.        *)
(***************************************************************************)
Absent == "<absent>"

\* values a source can give a key: two falsy ones and two truthy ones
\* None, the empty string, False and the empty tuple are falsy
FalsyValues == {None, "", "False", "()"}
TruthyValues == {"v1", "v2"}
ConfigValues == {Absent, None, ""} \cup TruthyValues

\* Python's `not value`
Falsy(v) == v \in FalsyValues

MergeKeys == {"app", "version"}

\* a TOML file on disk: missing, or holding a (possibly empty) table
NoFile(keys) == [exists |-> FALSE, table |-> [k \in keys |-> Absent]]
TomlFile(table) == [exists |-> TRUE, table |-> table]

\* set_from_defaults: a key of defaults is copied when kwargs does not hold
\* the key or holds a falsy value for it
set_from_defaults(kwargs, defaults) ==
    [key \in DOMAIN kwargs |->
        IF defaults[key] # Absent /\ (kwargs[key] = Absent \/ Falsy(kwargs[key]))
        THEN defaults[key]
        ELSE kwargs[key]]

\* load_from_toml: the [tool.applecrate] table of the file, {} when the file
\* has no such table; toml.load raises when the file does not exist
load_from_toml(file) ==
    IF ~file.exists THEN Raise("FileNotFoundError", "pyproject.toml")
    ELSE Return(file.table)

\* the merge at the head of the build command: pyproject.toml is the only
\* file read; applecrate.toml (local) is not opened
build_merge_kwargs(kwargs, local, pyproject) ==
    LET toml_kwargs == load_from_toml(pyproject)
    IN  IF ~toml_kwargs.ok THEN toml_kwargs
        ELSE Return(set_from_defaults(kwargs, toml_kwargs.value))

(***************************************************************************)
(* SpecMerge: the merge applied to every choice of command line options,   *)
(* applecrate.toml and pyproject.toml over MergeKeys.                      *)
(***************************************************************************)
\* click passes every declared option, None when it is not given
CliValues == ConfigValues \ {Absent}

InitMerge ==
    /\ pc = "merge:call"
    /\ \E cli \in [MergeKeys -> CliValues] :
          \E local \in {NoFile(MergeKeys)} \cup {TomlFile(t) : t \in [MergeKeys -> ConfigValues]} :
              \E pyproject \in {NoFile(MergeKeys)} \cup {TomlFile(t) : t \in [MergeKeys -> ConfigValues]} :
                  fnArg = [cli |-> cli, local |-> local, pyproject |-> pyproject]
    /\ fnRet = Pending
    /\ BuildIdle

CallMerge ==
    /\ pc = "merge:call"
    /\ fnRet' = build_merge_kwargs(fnArg.cli, fnArg.local, fnArg.pyproject)
    /\ pc' = "merge:done"
    /\ UNCHANGED <<fnArg, buildVars>>

NextMerge == CallMerge

SpecMerge == InitMerge /\ [][NextMerge]_vars

\* the sources of the call under study, highest precedence first
MergeSources == <<fnArg.cli, fnArg.local.table, fnArg.pyproject.table>>

IsTruthy(v) == v # Absent /\ ~Falsy(v)

\* C4: every field takes its value from the highest-precedence source in
\* which it is present and truthy, in the order command line, applecrate.toml,
\* pyproject.toml.
C4_MergePrecedence ==
    (pc = "merge:done" /\ fnRet.ok) =>
        \A key \in MergeKeys :
            \A i \in 1..3 :
                (/\ IsTruthy(MergeSources[i][key])
                 /\ \A j \in 1..(i - 1) : ~IsTruthy(MergeSources[j][key]))
                    => fnRet.value[key] = MergeSources[i][key]

(***************************************************************************)
(* The fixture the builds run in: the files on disk, the environment and   *)
(* the keychain.  Argument values are the strings a caller passes.         *)
(***************************************************************************)
\* the characters of the file names of the fixture
FileChars(f) ==
    CASE f = "w.md"     -> <<"w">> \o ExtMd
      [] f = "w.txt"    -> <<"w">> \o ExtTxt
      [] f = "gone.md"  -> <<"g", "o", "n", "e">> \o ExtMd
      [] f = "s.sh"     -> <<"s">> \o ExtSh
      [] f = "s.txt"    -> <<"s">> \o ExtTxt
      [] f = "gone.sh"  -> <<"g", "o", "n", "e">> \o ExtSh
      [] f = "b.png"    -> <<"b">> \o ExtPng
      [] f = "b.txt"    -> <<"b">> \o ExtTxt
      [] f = "gone.png" -> <<"g", "o", "n", "e">> \o ExtPng
      [] f = "LICENSE"  -> <<"L", "I", "C", "E", "N", "S", "E">>
      [] f = "GONE"     -> <<"G", "O", "N", "E">>
      [] f = "bdir"     -> <<"b", "d", "i", "r">>
      [] f = "gone_dir" -> <<"g", "o", "n", "e", "_", "d", "i", "r">>
      [] f = "app.bin"  -> <<"a", "p", "p", ".", "b", "i", "n">>
      [] f = "gone.bin" -> <<"g", "o", "n", "e", ".", "b", "i", "n">>
      [] OTHER          -> <<>>

\* the files and directories that exist on disk
ExistingFiles == {"w.md", "w.txt", "s.sh", "s.txt", "b.png", "b.txt", "LICENSE", "bdir", "app.bin"}

\* pathlib.Path(value) for an optional path argument
PathOf(v) ==
    IF v = None THEN NonePath
    ELSE PathArg(FileChars(v), v \in ExistingFiles)

\* the install, link and chmod lists of the fixture, by name
\* (destinations and link ends are given by their pathlib parts)
UsrLocalBinApp == <<"/", "usr", "local", "bin", "app">>
BinApp == <<"bin", "app">>
OptApp == <<"/", "opt", "app">>
\* "//usr/local/bin/app"
SlashSlashApp == <<"//", "usr", "local", "bin", "app">>
DotDotApp == <<"/", "..", "..", "..", "etc", "app">>

InstallOf(v) ==
    CASE v = "install:ok"      -> List(<<[src |-> "app.bin", dest |-> UsrLocalBinApp]>>)
      [] v = "install:nosrc"   -> List(<<[src |-> "gone.bin", dest |-> UsrLocalBinApp]>>)
      [] v = "install:reldest" -> List(<<[src |-> "app.bin", dest |-> BinApp]>>)
      [] v = "install:slashslash" -> List(<<[src |-> "app.bin", dest |-> SlashSlashApp]>>)
      [] v = "install:dotdot"  -> List(<<[src |-> "app.bin", dest |-> DotDotApp]>>)
      [] v = "()"              -> List(<<>>)
      [] OTHER                 -> NoneList

LinkOf(v) ==
    CASE v = "link:ok"        -> List(<<[src |-> OptApp, target |-> UsrLocalBinApp]>>)
      [] v = "link:relsrc"    -> List(<<[src |-> BinApp, target |-> UsrLocalBinApp]>>)
      [] v = "link:reltarget" -> List(<<[src |-> OptApp, target |-> BinApp]>>)
      [] v = "()"             -> List(<<>>)
      [] OTHER                -> NoneList

ChmodOf(v) ==
    CASE v = "chmod:ok"      -> List(<<GoodDirective>>)
      [] v = "chmod:badmode" -> List(<<[mode |-> StrMode(<<"7", "x", "5">>), path |-> AbsPath]>>)
      [] v = "chmod:relpath" -> List(<<[mode |-> Mode755, path |-> RelPath]>>)
      [] v = "()"            -> List(<<>>)
      [] OTHER               -> NoneList

\* output paths: the parent directory of "out/app.pkg" exists, that of
\* "nodir/app.pkg" does not
ParentExists(v) == v = "out/app.pkg"

\* os.environ and the identities `security find-identity -v` lists
environ_get(name) == IF name = "CERT" THEN "Good Cert" ELSE None
KeychainIdentities == {"Good Cert"}

\* sign.startswith("$") and sign[1:] for the sign values of the fixture
StartsWithDollar(sign) == sign \in {"$CERT", "$UNSET"}
AfterDollar(sign) == IF sign = "$CERT" THEN "CERT" ELSE "UNSET"

(***************************************************************************)
(* The validators of build.py.                                             *)
(***************************************************************************)
validate_app(app) ==
    IF Falsy(app) THEN Raise("ValueError", "app") ELSE Return(app)

validate_version(version) ==
    IF Falsy(version) THEN Raise("ValueError", "version") ELSE Return(version)

\* validate_optional_path_exists / _extension on an argument value; the
\* value itself is kept as the validated path
path_exists(v, name) ==
    LET r == validate_optional_path_exists(PathOf(v), name)
    IN  IF ~r.ok THEN r ELSE IF r.value.given THEN Return(v) ELSE Return(None)

path_extension(v, name, extension) ==
    LET r == validate_optional_path_extension(PathOf(v), name, extension)
    IN  IF ~r.ok THEN r ELSE IF r.value.given THEN Return(v) ELSE Return(None)

validate_optional_path_parent_exists(v, name) ==
    IF Falsy(v) THEN Return(None)
    ELSE IF ~ParentExists(v) THEN Raise("ValueError", name)
    ELSE Return(v)

RECURSIVE validate_install_loop(_)
validate_install_loop(install) ==
    IF install = <<>> THEN "ok"
    ELSE IF Head(install).src \notin ExistingFiles THEN "Install dir/file does not exist"
    ELSE IF ~is_absolute(Head(install).dest) THEN "Install destination must be an absolute path"
    ELSE validate_install_loop(Tail(install))

validate_install(v) ==
    IF ~Truthy(InstallOf(v)) THEN Return("()")
    ELSE IF validate_install_loop(InstallOf(v).items) # "ok" THEN Raise("ValueError", "install")
    ELSE Return(v)

RECURSIVE validate_link_loop(_)
validate_link_loop(link) ==
    IF link = <<>> THEN "ok"
    ELSE IF ~is_absolute(Head(link).src) THEN "Link source must be an absolute path"
    ELSE IF ~is_absolute(Head(link).target) THEN "Link target must be an absolute path"
    ELSE validate_link_loop(Tail(link))

validate_link(v) ==
    IF ~Truthy(LinkOf(v)) THEN Return("()")
    ELSE IF validate_link_loop(LinkOf(v).items) # "ok" THEN Raise("ValueError", "link")
    ELSE Return(v)

\* check_certificate_is_valid (utils.py): the certificate is in the listing
check_certificate_is_valid(certificate) == certificate \in KeychainIdentities

\* validate_sign for the sign values of the fixture, none of which starts
\* with "Developer ID Installer:"
validate_sign(sign) ==
    IF Falsy(sign) THEN Return(None)
    ELSE LET env_sign == environ_get(AfterDollar(sign))
             cert == IF StartsWithDollar(sign) THEN env_sign ELSE sign
         IN  IF StartsWithDollar(sign) /\ Falsy(env_sign) THEN Raise("ValueError", "sign")
             ELSE IF ~check_certificate_is_valid(cert) THEN Raise("ValueError", "sign")
             ELSE Return(cert)

\* validate_chmod on an argument value
chmod_arg(v) ==
    LET r == validate_chmod(ChmodOf(v))
    IN  IF ~r.ok THEN Raise(r.exc, "chmod") ELSE IF r.value.none THEN Return(None) ELSE Return(v)

(***************************************************************************)
(* build_installer (build.py): the validation of its arguments.            *)
(***************************************************************************)
Fields == {"app", "version", "welcome", "conclusion", "uninstall", "no_uninstall",
           "install", "link", "license", "banner", "post_install", "pre_install",
           "sign", "output", "build_dir", "chmod"}

\* kwargs.get(key): None for a key the mapping does not hold
Get(kwargs, key) == IF kwargs[key] = Absent THEN None ELSE kwargs[key]

\* build_installer without the check of uninstall against no_uninstall
no_conflict_check(uninstall, no_uninstall) == Return(None)

\* `if uninstall and no_uninstall: raise ValueError`
uninstall_conflict(uninstall, no_uninstall) ==
    IF ~Falsy(uninstall) /\ ~Falsy(no_uninstall)
    THEN Raise("ValueError", "uninstall/no_uninstall")
    ELSE Return(None)

\* the checks of build_installer, in the order it makes them: the field
\* each one validates and its result
build_installer_checks(a) ==
    << [field |-> "app",          r |-> validate_app(a["app"])],
       [field |-> "version",      r |-> validate_version(a["version"])],
       [field |-> "welcome",      r |-> path_extension(a["welcome"], "welcome",
                                            build_installer_extensions("welcome"))],
       [field |-> "conclusion",   r |-> path_extension(a["conclusion"], "conclusion",
                                            build_installer_extensions("conclusion"))],
       [field |-> "uninstall",    r |-> path_extension(a["uninstall"], "uninstall",
                                            build_installer_extensions("uninstall"))],
       [field |-> "no_uninstall", r |-> LET c == uninstall_conflict(a["uninstall"], a["no_uninstall"])
                                        IN  IF c.ok THEN Return(a["no_uninstall"]) ELSE c],
       [field |-> "install",      r |-> validate_install(a["install"])],
       [field |-> "link",         r |-> validate_link(a["link"])],
       [field |-> "license",      r |-> path_exists(a["license"], "license")],
       [field |-> "banner",       r |-> path_extension(a["banner"], "banner",
                                            build_installer_extensions("banner"))],
       [field |-> "post_install", r |-> path_extension(a["post_install"], "post_install",
                                            build_installer_extensions("post_install"))],
       [field |-> "pre_install",  r |-> path_extension(a["pre_install"], "pre_install",
                                            build_installer_extensions("pre_install"))],
       [field |-> "sign",         r |-> validate_sign(a["sign"])],
       [field |-> "output",       r |-> validate_optional_path_parent_exists(a["output"], "output")],
       [field |-> "build_dir",    r |-> path_exists(a["build_dir"], "build_dir")],
       [field |-> "chmod",        r |-> chmod_arg(a["chmod"])] >>

\* the first check of a list that raises, or 0
FirstFailure(checks) ==
    LET failing == {i \in 1..Len(checks) : ~checks[i].r.ok}
    IN  IF failing = {} THEN 0 ELSE CHOOSE i \in failing : \A j \in failing : i <= j

\* the validation block of build_installer: the exception of the first check
\* that fails, else the validated arguments
build_installer_validate(a) ==
    LET checks == build_installer_checks(a)
        bad == FirstFailure(checks)
    IN  IF bad # 0 THEN checks[bad].r
        ELSE Return([f \in Fields |->
                 checks[CHOOSE i \in 1..Len(checks) : checks[i].field = f].r.value])

(***************************************************************************)
(* The build command (cli.py): dependency check, merge and validation.     *)
(***************************************************************************)
Tools == {"pkgbuild", "productbuild", "productsign", "pkgutil"}

\* the order in which the tools are named
ToolOrder == <<"pkgbuild", "productbuild", "productsign", "pkgutil">>

\* shutil.which(tool)
which(tool, path) == tool \in path

\* check_dependencies of cli.py: pkgbuild, then productbuild
cli_check_dependencies(path) ==
    IF ~which("pkgbuild", path) THEN Raise("ClickException", "pkgbuild")
    ELSE IF ~which("productbuild", path) THEN Raise("ClickException", "productbuild")
    ELSE Return(None)

\* the options the build command declares; click passes each of them
CliOptions == {"app", "version", "license", "welcome", "conclusion", "uninstall",
               "no_uninstall", "banner", "install", "post_install"}

\* pathlib.Path(value).suffix.lower() for a file of the fixture
LowerSuffix(v) == lower(suffix(FileChars(v)))

\* `if kwargs.get("no_uninstall") and kwargs.get("uninstall"): raise ValueError`
cli_uninstall_conflict(uninstall, no_uninstall) ==
    IF ~Falsy(no_uninstall) /\ ~Falsy(uninstall)
    THEN Raise("ValueError", "uninstall/no_uninstall")
    ELSE Return(None)

\* a suffix check of validate_build_kwargs of cli.py
cli_suffix_check(v, name, extension) ==
    IF Falsy(v) THEN Return(v)
    ELSE IF LowerSuffix(v) \notin extension THEN Raise("ValueError", name)
    ELSE Return(v)

\* the checks of validate_build_kwargs of cli.py, in order
cli_validate_checks(k) ==
    << [field |-> "app",     r |-> validate_app(Get(k, "app"))],
       [field |-> "version", r |-> validate_version(Get(k, "version"))],
       [field |-> "license", r |-> IF Falsy(Get(k, "license"))
                                   THEN Raise("ValueError", "license")
                                   ELSE Return(Get(k, "license"))],
       [field |-> "no_uninstall", r |-> cli_uninstall_conflict(Get(k, "uninstall"), Get(k, "no_uninstall"))],
       [field |-> "welcome",    r |-> cli_suffix_check(Get(k, "welcome"), "welcome", {ExtMd, ExtMarkdown, ExtHtml})],
       [field |-> "conclusion", r |-> cli_suffix_check(Get(k, "conclusion"), "conclusion", {ExtMd, ExtMarkdown, ExtHtml})],
       [field |-> "uninstall",  r |-> cli_suffix_check(Get(k, "uninstall"), "uninstall", {ExtSh})],
       [field |-> "install",    r |-> validate_install(Get(k, "install"))],
       [field |-> "banner",     r |-> cli_suffix_check(Get(k, "banner"), "banner", {ExtPng})] >>

\* lines 115-124 of the build command: the merge with pyproject.toml, then
\* validate_build_kwargs, whose ValueError becomes click.BadParameter; the
\* merged kwargs are what the build goes on with
cli_merge_and_validate(kwargs, pyproject) ==
    LET merged == build_merge_kwargs(kwargs, NoFile(Fields), pyproject)
    IN  IF ~merged.ok THEN merged
        ELSE LET checks == cli_validate_checks(merged.value)
                 bad == FirstFailure(checks)
             IN  IF bad # 0 THEN Raise("BadParameter", checks[bad].r.msg)
                 ELSE Return([f \in Fields |-> Get(merged.value, f)])

(***************************************************************************)
(* The build directory: a mapping from the path of an entry (its parts,    *)
(* relative to the build directory) to what the entry is.                  *)
(***************************************************************************)
Dir == [kind |-> "dir", mode |-> "0755", from |-> None]
File(mode, from) == [kind |-> "file", mode |-> mode, from |-> from]

EmptyTree == [p \in {} |-> Dir]

\* what an earlier build left behind
StaleTree ==
    [p \in {<<"Resources">>, <<"Resources", "LICENSE.txt">>, <<"scripts">>,
            <<"scripts", "custom_preinstall">>, <<"darwinpkg">>,
            <<"darwinpkg", "uninstall.sh">>, <<"pkg-signed">>, <<"stale.txt">>} |->
        IF Len(p) = 1 /\ p # <<"stale.txt">> THEN Dir ELSE File("0644", "earlier build")]

\* a cleaning that unlinks the files at the top of the build directory and
\* leaves its directories with what they hold
unlink_files_only(t) ==
    [p \in {q \in DOMAIN t : Len(q) > 1 \/ t[q].kind = "dir"} |-> t[p]]

\* a cleaning that leaves the build directory as it finds it
keep_build_dir(t) == t

\* clean_build_dir: every entry of the build directory is removed
clean_build_dir(t) == EmptyTree

\* create_build_dirs: the five directories of the layout
BuildDirs == {<<"Resources">>, <<"scripts">>, <<"darwinpkg">>, <<"package">>, <<"pkg">>}
create_build_dirs(t) == [p \in BuildDirs |-> Dir] @@ t

\* stage_install_files: the target of a destination.  relative_to("/")
\* succeeds for a path below the root "/"; for any other path the
\* ValueError is passed over and dest is joined as it is, and joining an
\* absolute path (root "//") yields that path itself, outside the build
\* directory
stage_install_target(dest) ==
    IF dest # <<>> /\ dest[1] = "/" THEN <<"darwinpkg">> \o Tail(dest)
    ELSE IF dest # <<>> /\ dest[1] = "//" THEN dest
    ELSE <<"darwinpkg">> \o dest

\* one file written by staging: its path, the user file it is made from (None
\* for a built-in template), and the mode it is left with
Item(path, source, template, mode) ==
    [path |-> path, source |-> source, template |-> template, mode |-> mode]

\* a file rendered from the user's file when given, else from a template
Rendered(path, user, template, mode) ==
    IF Falsy(user) THEN Item(path, None, template, mode) ELSE Item(path, user, None, mode)

\* a user file copied verbatim (shutil.copy keeps the mode of the source)
Copied(path, user) == Item(path, user, None, "source")

InstallItems(install) ==
    [i \in 1..Len(install) |-> Copied(stage_install_target(install[i].dest), install[i].src)]

\* an uninstall script written next to the install scripts
uninstall_in_scripts(k) == <<"scripts", "uninstall.sh">>

\* `target = build_dir / "darwinpkg" / "Library" / "Application Support" / app /
\* version / "uninstall.sh"`
UninstallPath(k) ==
    <<"darwinpkg", "Library", "Application Support", k["app"], k["version"], "uninstall.sh">>

\* the files build_installer_ stages, in the order it writes them
build_installer_items(k) ==
    << Rendered(<<"Resources", "welcome.html">>, k["welcome"], "welcome.md", "0644"),
       Rendered(<<"Resources", "conclusion.html">>, k["conclusion"], "conclusion.md", "0644") >>
    \o (IF Falsy(k["license"]) THEN <<>> ELSE <<Copied(<<"Resources", "LICENSE.txt">>, k["license"])>>)
    \o InstallItems(InstallOf(k["install"]).items)
    \o (IF ~Falsy(k["no_uninstall"]) THEN <<>>
        ELSE <<Rendered(UninstallPath(k), k["uninstall"], "uninstall.sh", "0755")>>)
    \o << Item(<<"scripts", "preinstall">>, None, "preinstall", "0755"),
          Item(<<"scripts", "postinstall">>, None, "postinstall", "0755") >>
    \o (IF Falsy(k["pre_install"]) THEN <<>>
        ELSE <<Item(<<"scripts", "custom_preinstall">>, k["pre_install"], None, "0755")>>)
    \o (IF Falsy(k["post_install"]) THEN <<>>
        ELSE <<Item(<<"scripts", "custom_postinstall">>, k["post_install"], None, "0755")>>)
    \o (IF Falsy(k["banner"]) THEN <<>> ELSE <<Copied(<<"Resources", "banner.png">>, k["banner"])>>)
    \o << Item(<<"Distribution">>, None, "Distribution", "0755") >>

\* the files the build command of cli.py stages, in order
cli_build_items(k) ==
    << Rendered(<<"Resources", "welcome.html">>, k["welcome"], "welcome.md", "0644"),
       Rendered(<<"Resources", "conclusion.html">>, k["conclusion"], "conclusion.md", "0644"),
       Copied(<<"Resources", "LICENSE.txt">>, k["license"]) >>
    \o InstallItems(InstallOf(k["install"]).items)
    \o (IF ~Falsy(k["no_uninstall"]) THEN <<>>
        ELSE <<Rendered(UninstallPath(k), k["uninstall"], "uninstall.sh", "0755")>>)
    \o << Rendered(<<"scripts", "postinstall">>, k["post_install"], "postinstall", "0755") >>
    \o (IF Falsy(k["banner"]) THEN <<>> ELSE <<Copied(<<"Resources", "banner.png">>, k["banner"])>>)
    \o << Item(<<"Distribution">>, None, "Distribution", "0755") >>

\* the first item whose user file does not exist (opening it raises), or 0
FirstMissing(items) ==
    LET missing == {i \in 1..Len(items) :
                        items[i].source # None /\ items[i].source \notin ExistingFiles}
    IN  IF missing = {} THEN 0 ELSE CHOOSE i \in missing : \A j \in missing : i <= j

\* the tree after the first n items are written
WriteItems(t, items, n) ==
    [p \in {items[i].path : i \in 1..n} |->
        LET last == CHOOSE i \in 1..n :
                        items[i].path = p /\ \A j \in 1..n : items[j].path = p => j <= i
        IN  File(items[last].mode,
                 IF items[last].source # None THEN items[last].source
                 ELSE "template:" \o items[last].template)] @@ t

(***************************************************************************)
(* The calls and the environments the builds start from.                   *)
(***************************************************************************)
\* build_installer(app="App", version="1.0"), every other argument at its default
LibBaseArgs ==
    [f \in Fields |->
        CASE f = "app" -> "App"
          [] f = "version" -> "1.0"
          [] f = "no_uninstall" -> "False"
          [] OTHER -> None]

\* `applecrate build --app App --version 1.0 --license LICENSE`: click passes
\* None for an option not given, False for a flag, () for a repeatable one
CliBaseArgs ==
    [f \in Fields |->
        CASE f = "app" -> "App"
          [] f = "version" -> "1.0"
          [] f = "license" -> "LICENSE"
          [] f = "no_uninstall" -> "False"
          [] f = "install" -> "()"
          [] f \in CliOptions -> None
          [] OTHER -> Absent]

\* the other values tried for each argument
ArgValues(f) ==
    CASE f \in {"app", "version"} -> {""}
      [] f \in {"welcome", "conclusion"} -> {"w.md", "w.txt", "gone.md"}
      [] f \in {"uninstall", "post_install", "pre_install"} -> {"s.sh", "s.txt", "gone.sh"}
      [] f = "no_uninstall" -> {"True"}
      [] f = "install" -> {"install:ok", "install:nosrc", "install:reldest",
                           "install:slashslash", "install:dotdot"}
      [] f = "link" -> {"link:ok", "link:relsrc", "link:reltarget"}
      [] f = "license" -> {"LICENSE", "GONE"}
      [] f = "banner" -> {"b.png", "b.txt", "gone.png"}
      [] f = "sign" -> {"Good Cert", "Bad Cert", "$CERT", "$UNSET"}
      [] f = "output" -> {"out/app.pkg", "nodir/app.pkg"}
      [] f = "build_dir" -> {"bdir", "gone_dir"}
      [] f = "chmod" -> {"chmod:ok", "chmod:badmode", "chmod:relpath"}

\* on the command line click.Path(exists=True) has already refused a file
\* that does not exist; an option can also be left out
CliArgValues(f) ==
    IF f \in {"app", "version", "license"} THEN {None}
    ELSE {v \in ArgValues(f) : FileChars(v) = <<>> \/ v \in ExistingFiles}

\* the values tried in the [tool.applecrate] table
TomlValues(f) == IF f \in {"app", "version"} THEN {"Toml"} ELSE ArgValues(f)

Deviation(what, key, value) == [what |-> what, key |-> key, value |-> value]

Deviations(e) ==
    {Deviation("nothing", "", "")}
        \cup {Deviation("missing tool", t, "") : t \in Tools}
        \cup {Deviation("stale build directory", "", "")}
        \cup (IF e = "lib"
              THEN UNION {{Deviation("argument", f, v) : v \in ArgValues(f)} : f \in Fields}
              ELSE UNION {{Deviation("argument", f, v) : v \in CliArgValues(f)} : f \in CliOptions}
                     \cup UNION {{Deviation("pyproject", f, v) : v \in TomlValues(f)} : f \in Fields}
                     \cup {Deviation("no pyproject.toml", "", "")})

BaseWorld(e) ==
    [args   |-> IF e = "lib" THEN LibBaseArgs ELSE CliBaseArgs,
     toml   |-> IF e = "lib" THEN NoFile(Fields) ELSE TomlFile([f \in Fields |-> Absent]),
     onPath |-> Tools,
     tree   |-> EmptyTree]

Deviate(w, d) ==
    CASE d.what = "nothing" -> w
      [] d.what = "missing tool" -> [w EXCEPT !.onPath = @ \ {d.key}]
      [] d.what = "stale build directory" -> [w EXCEPT !.tree = StaleTree]
      [] d.what = "argument" -> [w EXCEPT !.args[d.key] = d.value]
      [] d.what = "pyproject" -> [w EXCEPT !.toml.table[d.key] = d.value]
      [] d.what = "no pyproject.toml" -> [w EXCEPT !.toml = NoFile(Fields)]

RECURSIVE DeviateAll(_, _)
DeviateAll(w, ds) == IF ds = <<>> THEN w ELSE DeviateAll(Deviate(w, Head(ds)), Tail(ds))

(***************************************************************************)
(* The build: build_installer and build_installer_ (build.py), and the     *)
(* build command (cli.py), one action per step.                            *)
(***************************************************************************)
\* a build that runs productbuild before pkgbuild
product_before_package == <<"validate", "clean", "mkdirs", "stage", "productbuild", "pkgbuild",
                            "sign", "productsign", "pkgutil", "copy", "done">>

\* a build that runs pkgbuild before it stages the files
package_before_stage == <<"validate", "clean", "mkdirs", "pkgbuild", "stage", "productbuild",
                          "sign", "productsign", "pkgutil", "copy", "done">>

\* a build that copies the product to the output before it signs it
copy_before_sign == <<"validate", "clean", "mkdirs", "stage", "pkgbuild", "productbuild",
                      "copy", "sign", "productsign", "pkgutil", "done">>

\* a build that prepares the build directory before it validates
validate_after_mkdirs == <<"clean", "mkdirs", "validate", "stage", "pkgbuild", "productbuild",
                           "sign", "productsign", "pkgutil", "copy", "done">>

\* the steps of build_installer followed by build_installer_, in order
LibFlow == <<"validate", "clean", "mkdirs", "stage", "pkgbuild", "productbuild",
             "sign", "productsign", "pkgutil", "copy", "done">>

\* the steps of the build command of cli.py, in order
CliFlow == <<"check_dependencies", "validate", "clean", "mkdirs", "stage",
             "pkgbuild", "productbuild", "done">>

Flow == IF entry = "lib" THEN LibFlow ELSE CliFlow

\* the step after step p
After(p) == Flow[(CHOOSE i \in 1..Len(Flow) : Flow[i] = p) + 1]

NoOut == [target |-> None, from |-> <<>>]

Init ==
    /\ entry \in {"lib", "cli"}
    /\ \E ds \in [1..MaxDeviations -> Deviations(entry)] :
          LET w == DeviateAll(BaseWorld(entry), ds)
          IN  /\ args = w.args
              /\ toml = w.toml
              /\ onPath = w.onPath
              /\ tree = w.tree
    /\ pc = Flow[1]
    /\ cfg = NoCfg
    /\ fsops = <<>>
    /\ calls = <<>>
    /\ err = NoErr
    /\ stages = <<>>
    /\ out = NoOut
    /\ fnArg = None
    /\ fnRet = Pending

inputVars == <<entry, args, toml, onPath, fnArg, fnRet>>

\* an exception leaves the build
\* a failure that empties the build directory on its way out
removed_on_failure(t) == EmptyTree

\* the exception of a failed step leaves build_installer_ through no handler:
\* the build directory stays as the failing step left it
left_on_failure(t) == t

Fail(kind, exc, msg, stderr) ==
    /\ err' = [kind |-> kind, exc |-> exc, msg |-> msg, stderr |-> stderr]
    /\ pc' = "failed"

\* check_dependencies(), the first statement of the build command
CheckDependencies ==
    /\ pc = "check_dependencies"
    /\ LET r == cli_check_dependencies(onPath)
       IN  IF r.ok THEN pc' = After(pc) /\ err' = err
           ELSE Fail("dependency", r.exc, r.msg, None)
    /\ UNCHANGED <<inputVars, cfg, tree, fsops, calls, stages, out>>

\* the validation of the arguments
Validate ==
    /\ pc = "validate"
    /\ LET r == IF entry = "lib" THEN build_installer_validate(args)
                ELSE cli_merge_and_validate(args, toml)
       IN  IF r.ok
           THEN /\ cfg' = [valid |-> TRUE, kw |-> r.value]
                /\ pc' = After(pc)
                /\ err' = err
           ELSE /\ cfg' = cfg
                /\ Fail(IF r.msg = "pyproject.toml" THEN "oserror" ELSE "validation",
                        r.exc, r.msg, None)
    /\ UNCHANGED <<inputVars, tree, fsops, calls, stages, out>>

\* clean_build_dir(build_dir): nothing to do when the directory does not exist
CleanBuildDir ==
    /\ pc = "clean"
    /\ tree' = clean_build_dir(tree)
    /\ fsops' = IF tree = EmptyTree THEN fsops ELSE Append(fsops, "clean_build_dir")
    /\ pc' = After(pc)
    /\ UNCHANGED <<inputVars, cfg, calls, err, stages, out>>

\* create_build_dirs(build_dir)
CreateBuildDirs ==
    /\ pc = "mkdirs"
    /\ tree' = create_build_dirs(tree)
    /\ fsops' = Append(fsops, "create_build_dirs")
    /\ pc' = After(pc)
    /\ UNCHANGED <<inputVars, cfg, calls, err, stages, out>>

\* the staging of the resources, the payload, the scripts and Distribution;
\* it stops at the first user file that cannot be opened
StageFiles ==
    /\ pc = "stage"
    /\ LET items == IF entry = "lib" THEN build_installer_items(cfg.kw)
                    ELSE cli_build_items(cfg.kw)
           bad == FirstMissing(items)
       IN  IF bad = 0
           THEN /\ tree' = WriteItems(tree, items, Len(items))
                /\ stages' = Append(stages, "Staged")
                /\ pc' = After(pc)
                /\ err' = err
           ELSE /\ tree' = left_on_failure(WriteItems(tree, items, bad - 1))
                /\ stages' = stages
                /\ Fail("oserror", "FileNotFoundError", items[bad].source, None)
    /\ fsops' = Append(fsops, "stage")
    /\ UNCHANGED <<inputVars, cfg, calls, out>>

\* exit codes and captured stderr texts of a native tool
ExitCodes == {0 - 9, 0, 1}
StderrTexts == {"", "error text"}

\* a returncode that is taken for success although it is not 0
only_positive_is_failure(returncode) == returncode > 0

\* `if proc.returncode != 0: raise`
tool_failed(returncode) == returncode # 0

ProductName == cfg.kw["app"] \o "-" \o cfg.kw["version"] \o ".pkg"

\* subprocess.run of a native tool: the tool cannot be started, or it runs and
\* exits; on exit code 0 the artifact is there and the stage is complete
RunTool(tool, artifact, stage) ==
    IF ~which(tool, onPath)
    THEN /\ Fail("oserror", "FileNotFoundError", tool, None)
         /\ UNCHANGED <<calls, tree, stages>>
    ELSE \E rc \in ExitCodes, text \in StderrTexts :
            /\ calls' = Append(calls, [tool |-> tool, rc |-> rc, stderr |-> text])
            /\ IF tool_failed(rc)
               THEN /\ Fail("tool", IF entry = "lib" THEN "RuntimeError" ELSE "ClickException",
                            tool, text)
                    /\ tree' = left_on_failure(tree)
                    /\ UNCHANGED stages
               ELSE /\ tree' = IF artifact = <<>> THEN tree
                               ELSE (artifact :> File("0644", tool)) @@ tree
                    /\ stages' = IF stage = None THEN stages ELSE Append(stages, stage)
                    /\ pc' = After(pc)
                    /\ err' = err

\* build_package: pkgbuild
BuildPackage ==
    /\ pc = "pkgbuild"
    /\ RunTool("pkgbuild", <<"package", cfg.kw["app"] \o ".pkg">>, "PackageBuilt")
    /\ UNCHANGED <<inputVars, cfg, fsops, out>>

\* build_product: productbuild
BuildProduct ==
    /\ pc = "productbuild"
    /\ RunTool("productbuild", <<"pkg", ProductName>>, "ProductBuilt")
    /\ UNCHANGED <<inputVars, cfg, fsops, out>>

\* `if sign:`
sign_requested(sign) == ~Falsy(sign)

\* no certificate: the unsigned product is carried forward
SkipSigning ==
    /\ pc = "sign"
    /\ ~sign_requested(cfg.kw["sign"])
    /\ stages' = Append(stages, "Unsigned")
    /\ pc' = "copy"
    /\ UNCHANGED <<inputVars, cfg, tree, fsops, calls, err, out>>

\* signed_product_path.parent.mkdir(parents=True, exist_ok=True)
MkdirSigned ==
    /\ pc = "sign"
    /\ sign_requested(cfg.kw["sign"])
    /\ tree' = (<<"pkg-signed">> :> Dir) @@ tree
    /\ fsops' = Append(fsops, "mkdir pkg-signed")
    /\ pc' = After(pc)
    /\ UNCHANGED <<inputVars, cfg, calls, err, stages, out>>

\* sign_product: productsign
ProductSign ==
    /\ pc = "productsign"
    /\ RunTool("productsign", <<"pkg-signed", ProductName>>, None)
    /\ UNCHANGED <<inputVars, cfg, fsops, out>>

\* sign_product: pkgutil --check-signature
CheckSignature ==
    /\ pc = "pkgutil"
    /\ RunTool("pkgutil", <<>>, "Signed")
    /\ UNCHANGED <<inputVars, cfg, fsops, out>>

\* `product_path = product_path if not sign else signed_product_path`
final_product_path(sign) ==
    IF Falsy(sign) THEN <<"pkg", ProductName>> ELSE <<"pkg-signed", ProductName>>

\* `target_path = output or BUILD_ROOT / product`
target_path(output) == IF Falsy(output) THEN "build/" \o ProductName ELSE output

\* target_path.parent.mkdir(parents=True, exist_ok=True), then
\* shutil.copy(product_path, target_path)
CopyToOutput ==
    /\ pc = "copy"
    /\ fsops' = Append(fsops, "mkdir target parent")
    /\ out' = [target |-> target_path(cfg.kw["output"]),
               from |-> final_product_path(cfg.kw["sign"])]
    /\ stages' = Append(stages, "Finalized")
    /\ pc' = After(pc)
    /\ UNCHANGED <<inputVars, cfg, tree, calls, err>>

Next ==
    \/ CheckDependencies
    \/ Validate
    \/ CleanBuildDir
    \/ CreateBuildDirs
    \/ StageFiles
    \/ BuildPackage
    \/ BuildProduct
    \/ SkipSigning
    \/ MkdirSigned
    \/ ProductSign
    \/ CheckSignature
    \/ CopyToOutput

Spec == Init /\ [][Next]_vars

(***************************************************************************)
(* Properties of the builds.                                               *)
(***************************************************************************)
IsPrefix(s, t) == Len(s) <= Len(t) /\ \A i \in 1..Len(s) : s[i] = t[i]

InvokedTools == [i \in 1..Len(calls) |-> calls[i].tool]

Invoked(tool) == \E i \in 1..Len(calls) : calls[i].tool = tool

\* the stage a successful run of the tool completes
StageOfTool(tool) ==
    CASE tool = "pkgbuild" -> "PackageBuilt"
      [] tool = "productbuild" -> "ProductBuilt"
      [] tool \in {"productsign", "pkgutil"} -> "Signed"

InStages(stage) == \E i \in 1..Len(stages) : stages[i] = stage

\* C1: when an invocation of pkgbuild, productbuild, productsign or pkgutil
\* exits non-zero, the build has aborted there with an error that carries the
\* stderr text captured from that tool, and nothing later was attempted: it is
\* the last invocation, its stage is not completed and nothing was copied to
\* the output path.
C1_ToolFailureAborts ==
    \A i \in 1..Len(calls) :
        calls[i].rc # 0 =>
            /\ i = Len(calls)
            /\ pc = "failed"
            /\ err.kind = "tool"
            /\ err.exc \in {"RuntimeError", "ClickException"}
            /\ err.msg = calls[i].tool
            /\ err.stderr = calls[i].stderr
            /\ ~InStages(StageOfTool(calls[i].tool))
            /\ ~InStages("Finalized")
            /\ out = NoOut
            /\ ~ENABLED Next

C1_Witness ==
    /\ pc = "failed"
    /\ Len(calls) = 3
    /\ calls[3] = [tool |-> "productsign", rc |-> 0 - 9, stderr |-> "error text"]
    /\ err.stderr = "error text"

\* C2: the stages of a build are completed in the order Staged, PackageBuilt,
\* ProductBuilt, Signed or Unsigned, Finalized, each at most once; a stage is
\* started only after its predecessor succeeded (the tools run in the order
\* pkgbuild, productbuild, productsign, pkgutil, each after the one before it
\* exited 0 and after the stage before it was completed); Staged means the
\* build directory was cleaned and then written.
C2_StageOrder ==
    /\ \E s \in {"Signed", "Unsigned"} :
          IsPrefix(stages, <<"Staged", "PackageBuilt", "ProductBuilt", s, "Finalized">>)
    /\ IsPrefix(InvokedTools, ToolOrder)
    /\ \A i \in 1..Len(calls) : i < Len(calls) => calls[i].rc = 0
    /\ \A i \in 1..Len(calls) : i <= 3 => Len(stages) >= i
    /\ Len(stages) >= 2 => calls[1].rc = 0
    /\ Len(stages) >= 3 => calls[2].rc = 0
    /\ InStages("Signed") => (Len(calls) = 4 /\ calls[4].rc = 0)
    /\ InStages("Unsigned") => Len(calls) = 2
    /\ (out # NoOut) <=> InStages("Finalized")
    /\ InStages("Staged") =>
          /\ \E cleaned \in {<<>>, <<"clean_build_dir">>},
                later \in {<<>>, <<"mkdir pkg-signed">>, <<"mkdir target parent">>,
                           <<"mkdir pkg-signed", "mkdir target parent">>} :
                fsops = cleaned \o <<"create_build_dirs", "stage">> \o later
          /\ <<"stale.txt">> \notin DOMAIN tree
          /\ <<"Distribution">> \in DOMAIN tree

C2_Witness ==
    /\ stages = <<"Staged", "PackageBuilt", "ProductBuilt", "Signed", "Finalized">>
    /\ fsops[1] = "clean_build_dir"
    /\ pc = "done"

\* C3: productsign and the signature check are invoked if and only if the
\* validated configuration holds a certificate identifier; the artifact
\* copied to the output path is pkg-signed/<app>-<version>.pkg when it does
\* and pkg/<app>-<version>.pkg when it does not; the pkg-signed directory
\* is created only when it does.
C3_SignIffCertificate ==
    /\ (Invoked("productsign") \/ Invoked("pkgutil")) => (cfg.valid /\ IsTruthy(cfg.kw["sign"]))
    /\ (\E i \in 1..Len(fsops) : fsops[i] = "mkdir pkg-signed")
          => (cfg.valid /\ IsTruthy(cfg.kw["sign"]))
    /\ (pc = "done" /\ IsTruthy(cfg.kw["sign"])) =>
          /\ Invoked("productsign")
          /\ Invoked("pkgutil")
    /\ (out # NoOut) =>
          out.from = IF IsTruthy(cfg.kw["sign"]) THEN <<"pkg-signed", ProductName>>
                     ELSE <<"pkg", ProductName>>

\* C5: when a build has rejected its configuration with a validation error,
\* the build directory is as it was (nothing removed, created or written) and
\* no tool has been invoked.
C5_ValidationBeforeSideEffects ==
    err.kind = "validation" =>
        /\ pc = "failed"
        /\ err.exc \in {"ValueError", "FileNotFoundError", "BadParameter"}
        /\ fsops = <<>>
        /\ tree \in {EmptyTree, StaleTree}
        /\ calls = <<>>
        /\ stages = <<>>
        /\ out = NoOut

C5_Witness ==
    /\ err.kind = "validation"
    /\ err.msg = "chmod"
    /\ tree = StaleTree

\* the arguments as the build sees them: for the build command, after the
\* values of pyproject.toml have been filled in
Effective ==
    IF entry = "cli" /\ toml.exists THEN set_from_defaults(args, toml.table) ELSE args

GivenUninstallAndNoUninstall ==
    IsTruthy(Effective["uninstall"]) /\ IsTruthy(Effective["no_uninstall"])

\* C6: a build given both an uninstall script and no_uninstall never gets
\* through validation and never stages anything: once its validation step has
\* run the build has failed with a validation error, and at no time has the
\* build directory been touched or a tool invoked.
C6_UninstallConflict ==
    GivenUninstallAndNoUninstall =>
        /\ ~cfg.valid
        /\ pc \in {"check_dependencies", "validate", "failed"}
        /\ fsops = <<>>
        /\ calls = <<>>
        /\ stages = <<>>
        /\ (pc = "failed" /\ err.kind \notin {"dependency", "oserror"})
              => (/\ err.kind = "validation"
                  /\ err.exc \in {"ValueError", "FileNotFoundError", "BadParameter"})
        /\ (pc = "failed" /\ err.kind = "oserror") => (entry = "cli" /\ ~toml.exists)

C6_Witness ==
    /\ entry = "lib"
    /\ args["uninstall"] = "s.sh"
    /\ args["no_uninstall"] = "True"
    /\ pc = "failed"
    /\ err = [kind |-> "validation", exc |-> "ValueError",
              msg |-> "uninstall/no_uninstall", stderr |-> None]

FirstMissingTool ==
    ToolOrder[CHOOSE i \in 1..4 : /\ ToolOrder[i] \notin onPath
                                  /\ \A j \in 1..(i - 1) : ToolOrder[j] \in onPath]

\* C7: when one of pkgbuild, productbuild, productsign, pkgutil is not on the
\* search path, the build fails before any staging of the build directory and
\* its error names the first missing tool in that order.
C7_MissingToolFailsFast ==
    (onPath # Tools) =>
        /\ fsops = <<>>
        /\ stages = <<>>
        /\ pc \in {Flow[1], "failed"}
        /\ pc = "failed" => err.msg = FirstMissingTool

(***************************************************************************)
(* validate_sign (build.py) on the characters of its argument, and         *)
(* check_certificate_is_valid (utils.py).  A str is List(characters), None *)
(* is NoneList.                                                            *)
(***************************************************************************)
\* "Developer ID Installer:"
InstallerPrefix ==
    <<"D", "e", "v", "e", "l", "o", "p", "e", "r", " ", "I", "D", " ",
      "I", "n", "s", "t", "a", "l", "l", "e", "r", ":">>

\* str.startswith
startswith(s, prefix) ==
    Len(s) >= Len(prefix) /\ SubSeq(s, 1, Len(prefix)) = prefix

\* the slice s[n:]
SliceFrom(s, n) == SubSeq(s, n + 1, Len(s))

\* `needle in haystack` for two str
IsSubstring(needle, haystack) ==
    \E i \in 0..(Len(haystack) - Len(needle)) :
        SubSeq(haystack, i + 1, i + Len(needle)) = needle

\* what `security find-identity -v` prints: one valid identity
SecurityStdout ==
    <<"1", ")", " ", "\"">> \o InstallerPrefix \o <<" ", "A", "B", "\"">>

\* check_certificate_is_valid on the characters of the certificate
certificate_in_listing(certificate) == IsSubstring(certificate, SecurityStdout)

\* the number of characters validate_sign drops from a value with the prefix
PrefixSliceLen == 24

\* `if sign.startswith("Developer ID Installer:"): sign = sign[24:]`
strip_prefix(sign) ==
    IF startswith(sign, InstallerPrefix) THEN SliceFrom(sign, PrefixSliceLen) ELSE sign

\* a lookup that falls back on the name when the variable is unset
get_with_default(name, environ) ==
    IF name \in DOMAIN environ THEN List(environ[name]) ELSE List(name)

\* os.environ.get(name): None when the variable is unset
os_environ_get(name, environ) ==
    IF name \in DOMAIN environ THEN List(environ[name]) ELSE NoneList

\* the outcome of validate_sign, with the certificates it asked the identity
\* listing about
SignOutcome(r, queried) == [r |-> r, queried |-> queried]

\* validate_sign(sign) in the environment environ
validate_sign_str(sign, environ) ==
    IF ~Truthy(sign) THEN SignOutcome(Return(NoneList), <<>>)
    ELSE LET dollar == startswith(sign.items, <<"$">>)
             env_sign == os_environ_get(SliceFrom(sign.items, 1), environ)
         IN  IF dollar /\ ~Truthy(env_sign)
             THEN SignOutcome(Raise("ValueError", "Environment variable is not set"), <<>>)
             ELSE LET resolved == IF dollar THEN env_sign.items ELSE sign.items
                      cert == strip_prefix(resolved)
                  IN  IF ~certificate_in_listing(cert)
                      THEN SignOutcome(Raise("ValueError", "Invalid certificate ID"), <<cert>>)
                      ELSE SignOutcome(Return(List(cert)), <<cert>>)

(***************************************************************************)
(* SpecSign: validate_sign applied to sign values made of a head (nothing, *)
(* the prefix, or a near miss of it) and a short identity text, given      *)
(* directly or through the environment variable N.                         *)
(***************************************************************************)
IdChars == {"A", "B", " "}

SignHeads ==
    {<<>>, InstallerPrefix, InstallerPrefix \o <<" ">>,
     SubSeq(InstallerPrefix, 1, Len(InstallerPrefix) - 1),
     <<"d">> \o Tail(InstallerPrefix)}

EnvName == <<"N">>
DollarN == <<"$">> \o EnvName

UnsetEnviron == [n \in {} |-> <<>>]
Environ(value) == [n \in {EnvName} |-> value]

NoSignOutcome == SignOutcome(Pending, <<>>)

InitSign ==
    /\ pc = "sign:call"
    /\ \E head \in SignHeads, k \in 0..MaxIdLen :
          \E text \in [1..k -> IdChars] :
             \/ fnArg = [sign |-> List(head \o text), environ |-> UnsetEnviron]
             \/ fnArg = [sign |-> List(DollarN), environ |-> Environ(head \o text)]
             \/ fnArg = [sign |-> List(DollarN \o text), environ |-> UnsetEnviron]
             \/ fnArg = [sign |-> NoneList, environ |-> Environ(head \o text)]
    /\ fnRet = NoSignOutcome
    /\ BuildIdle

CallValidateSign ==
    /\ pc = "sign:call"
    /\ fnRet' = validate_sign_str(fnArg.sign, fnArg.environ)
    /\ pc' = "sign:done"
    /\ UNCHANGED <<fnArg, buildVars>>

NextSign == CallValidateSign

SpecSign == InitSign /\ [][NextSign]_vars

\* the value validate_sign works on: the argument, or the value of the
\* environment variable it names
ResolvedSign ==
    IF startswith(fnArg.sign.items, <<"$">>)
    THEN os_environ_get(SliceFrom(fnArg.sign.items, 1), fnArg.environ)
    ELSE fnArg.sign

\* C11: for a value that starts with "Developer ID Installer:" the identity
\* asked about in the identity listing is the value with exactly the 23
\* characters of the prefix removed, and it is what an accepted value is
\* returned as for signing; an identity that does not appear in the listing
\* is rejected.
C11_StripsExactlyThePrefix ==
    (pc = "sign:done" /\ Truthy(ResolvedSign)) =>
        /\ startswith(ResolvedSign.items, InstallerPrefix) =>
              /\ fnRet.queried = <<SliceFrom(ResolvedSign.items, Len(InstallerPrefix))>>
              /\ fnRet.r.ok =>
                    fnRet.r.value = List(SliceFrom(ResolvedSign.items, Len(InstallerPrefix)))
        /\ \A i \in 1..Len(fnRet.queried) :
              ~IsSubstring(fnRet.queried[i], SecurityStdout) => ~fnRet.r.ok

\* C12: a value "$NAME" is validated as the value of the environment
\* variable NAME (prefix stripping and identity check included), and when
\* NAME is unset validate_sign raises without querying the identity listing.
C12_DollarReadsEnvironment ==
    (pc = "sign:done" /\ Truthy(fnArg.sign) /\ startswith(fnArg.sign.items, <<"$">>)) =>
        LET name == SliceFrom(fnArg.sign.items, 1)
        IN  IF name \in DOMAIN fnArg.environ /\ fnArg.environ[name] # <<>>
            THEN fnRet = validate_sign_str(List(fnArg.environ[name]), UnsetEnviron)
            ELSE /\ ~fnRet.r.ok
                 /\ fnRet.r.exc = "ValueError"
                 /\ fnRet.queried = <<>>

C12_Witness ==
    /\ pc = "sign:done"
    /\ fnArg.sign = List(DollarN \o <<"A">>)
    /\ fnArg.environ = UnsetEnviron
    /\ ~fnRet.r.ok
    /\ fnRet.queried = <<>>

(***************************************************************************)
(* Template strings and paths.  A str that may hold Jinja2 references is   *)
(* given by its segments: literal text and {{ name }} references.  A path  *)
(* is the sequence of its pathlib parts; a part is a template before       *)
(* rendering and plain text (what the file system sees) otherwise.         *)
(***************************************************************************)
Lit(text) == [var |-> FALSE, text |-> text]
Ref(name) == [var |-> TRUE, text |-> name]

\* the text of a template as the caller wrote it
RECURSIVE raw_text(_)
raw_text(template) ==
    IF template = <<>> THEN ""
    ELSE (IF Head(template).var THEN "{{ " \o Head(template).text \o " }}"
          ELSE Head(template).text) \o raw_text(Tail(template))

\* render_str: Template(s).render(**data); a name that data does not hold
\* renders as the empty string
RECURSIVE render_str(_, _)
render_str(template, data) ==
    IF template = <<>> THEN ""
    ELSE (IF ~Head(template).var THEN Head(template).text
          ELSE IF Head(template).text \in DOMAIN data THEN data[Head(template).text]
          ELSE "") \o render_str(Tail(template), data)

\* pathlib.Path(arg) of an argument that has not been rendered
raw_path(path) == [i \in 1..Len(path) |-> raw_text(path[i])]

\* render_path: the path of the rendered text
render_path(path, data) == [i \in 1..Len(path) |-> render_str(path[i], data)]

\* render_path_list_of_tuple: both paths of every pair are rendered
render_path_list_of_tuple(pairs, data) ==
    [i \in 1..Len(pairs) |-> [src  |-> render_path(pairs[i].src, data),
                              dest |-> render_path(pairs[i].dest, data)]]

\* pathlib.Path.parent of a relative or absolute path
parent(path) == IF Len(path) <= 1 THEN <<".">> ELSE SubSeq(path, 1, Len(path) - 1)

\* BUILD_DIR and BUILD_ROOT of build.py
BUILD_DIR == <<"build", "applecrate", "darwin">>
BUILD_ROOT == <<"build">>

\* the default of the identifier argument: "org.opensource.{{ app }}"
DefaultIdentifier == <<Lit("org.opensource."), Ref("app")>>

\* platform.machine()
Machine == "arm64"

\* the directories and files on disk before the build, by their parts
DiskPaths ==
    {<<".">>, <<"tmp">>, <<"tmp", "build_test">>, <<"TestApp_build">>, <<"TestApp">>,
     <<"TestApp.bin">>}

path_on_disk(path) == path \in DiskPaths

\* a use of a path or name by the build: the operation, the argument it
\* comes from, and the text the file system or the tool is given
Use(op, field, path) == [op |-> op, field |-> field, path |-> path]

(***************************************************************************)
(* SpecPaths: build_installer seen through its path-like arguments         *)
(* (identifier, output, build_dir, install, link) for a fixed app and      *)
(* version, with every tool present and succeeding: the checks of the      *)
(* validation block that touch them, their rendering, and their uses by    *)
(* build_installer_.  fsops records every use in order.                    *)
(***************************************************************************)
Part(text) == <<Lit(text)>>
RootPart == Part("/")

pathsApp == "TestApp"
pathsVersion == "1.0.0"

\* {"app": app, "version": version, "machine": platform.machine()}
TemplateData == [app |-> pathsApp, version |-> pathsVersion, machine |-> Machine]

PathsIdentifiers == {NoneList, List(<<Lit("com.example."), Ref("app")>>)}

PathsOutputs ==
    {NoneList,
     List(<<Part("test.pkg")>>),
     List(<<Part("tmp"), <<Ref("app"), Lit("-"), Ref("version"), Lit("-Installer.pkg")>>>>),
     List(<<<<Ref("app")>>, Part("out.pkg")>>),
     List(<<Part("nodir"), Part("out.pkg")>>)}

PathsBuildDirs ==
    {NoneList,
     List(<<Part("tmp"), Part("build_test")>>),
     List(<<<<Ref("app"), Lit("_build")>>>>),
     List(<<Part("gone")>>)}

PathsInstalls ==
    {NoneList,
     List(<<[src  |-> <<<<Ref("app"), Lit(".bin")>>>>,
             dest |-> <<RootPart, Part("usr"), Part("local"), Part("bin"), <<Ref("app")>>>>]>>),
     List(<<[src  |-> <<Part("TestApp.bin")>>,
             dest |-> <<Part("bin"), <<Ref("app")>>>>]>>),
     List(<<[src  |-> <<Part("gone.bin")>>,
             dest |-> <<RootPart, Part("opt"), Part("app")>>]>>)}

PathsLinks ==
    {NoneList,
     List(<<[src  |-> <<RootPart, Part("opt"), <<Ref("app")>>>>,
             dest |-> <<RootPart, Part("usr"), Part("local"), Part("bin"),
                        <<Ref("app"), Lit("-"), Ref("machine")>>>>]>>),
     List(<<[src  |-> <<Part("opt"), Part("app")>>,
             dest |-> <<RootPart, Part("usr"), Part("bin"), Part("app")>>]>>)}

\* one check of the validation block: the uses it makes and its result
Check(uses, r) == [uses |-> uses, r |-> r]

\* validate_install: the source is rendered, then looked up; the destination
\* is tested as written
install_checks(install) ==
    IF ~Truthy(install) THEN <<>>
    ELSE [k \in 1..(2 * Len(install.items)) |->
            LET pair == install.items[(k + 1) \div 2]
                src == render_path(pair.src, TemplateData)
            IN  IF k % 2 = 1
                THEN Check(<<Use("exists", "install source", src)>>,
                           IF path_on_disk(src) THEN Return(None)
                           ELSE Raise("ValueError", "Install dir/file does not exist"))
                ELSE Check(<<>>,
                           IF is_absolute(raw_path(pair.dest)) THEN Return(None)
                           ELSE Raise("ValueError", "Install destination must be an absolute path"))]

\* validate_link: both ends are tested as written
link_checks(link) ==
    IF ~Truthy(link) THEN <<>>
    ELSE [k \in 1..(2 * Len(link.items)) |->
            LET pair == link.items[(k + 1) \div 2]
            IN  Check(<<>>,
                      IF k % 2 = 1
                      THEN (IF is_absolute(raw_path(pair.src)) THEN Return(None)
                            ELSE Raise("ValueError", "Link source must be an absolute path"))
                      ELSE (IF is_absolute(raw_path(pair.dest)) THEN Return(None)
                            ELSE Raise("ValueError", "Link target must be an absolute path")))]

\* validate_optional_path_parent_exists(output, "output")
output_checks(output) ==
    IF ~Truthy(output) THEN <<>>
    ELSE LET path == raw_path(output.items)
         IN  <<Check(<<Use("exists", "output", parent(path))>>,
                     IF path_on_disk(parent(path)) THEN Return(None)
                     ELSE Raise("ValueError", "output: parent does not exist"))>>

\* validate_optional_path_exists(build_dir, "build_dir")
build_dir_checks(build_dir) ==
    IF ~Truthy(build_dir) THEN <<>>
    ELSE LET path == raw_path(build_dir.items)
         IN  <<Check(<<Use("exists", "build_dir", path)>>,
                     IF path_on_disk(path) THEN Return(None)
                     ELSE Raise("FileNotFoundError", "build_dir: does not exist"))>>

\* the checks of the path-like arguments in the order build_installer makes them
paths_checks(a) ==
    install_checks(a.install) \o link_checks(a.link)
        \o output_checks(a.output) \o build_dir_checks(a.build_dir)

RECURSIVE UsesOf(_, _)
UsesOf(checks, n) == IF n = 0 THEN <<>> ELSE UsesOf(checks, n - 1) \o checks[n].uses

NoPathsCfg == [valid |-> FALSE, rendered |-> FALSE]

InitPaths ==
    /\ pc = "paths:validate"
    /\ entry = "lib"
    /\ \E identifier \in PathsIdentifiers, output \in PathsOutputs,
          build_dir \in PathsBuildDirs, install \in PathsInstalls, link \in PathsLinks :
          args = [app |-> pathsApp, version |-> pathsVersion, identifier |-> identifier,
                  output |-> output, build_dir |-> build_dir, install |-> install,
                  link |-> link]
    /\ cfg = NoPathsCfg
    /\ fsops = <<>>
    /\ calls = <<>>
    /\ err = NoErr
    /\ toml = None
    /\ onPath = Tools
    /\ tree = {}
    /\ stages = <<>>
    /\ out = None
    /\ fnArg = None
    /\ fnRet = Pending

pathsFixed == <<entry, args, toml, onPath, tree, stages, fnArg, fnRet>>

\* lines 103-121 for the path-like arguments
PathsValidate ==
    /\ pc = "paths:validate"
    /\ LET checks == paths_checks(args)
           bad == FirstFailure(checks)
       IN  IF bad # 0
           THEN /\ fsops' = fsops \o UsesOf(checks, bad)
                /\ Fail("validation", checks[bad].r.exc, checks[bad].r.msg, None)
                /\ cfg' = cfg
           ELSE /\ fsops' = fsops \o UsesOf(checks, Len(checks))
                /\ cfg' = [valid |-> TRUE, rendered |-> FALSE]
                /\ pc' = "paths:render"
                /\ err' = err
    /\ UNCHANGED <<pathsFixed, calls, out>>

\* lines 141-151: the rendering of identifier, output, build_dir, install and
\* link (the source of an install pair was rendered by validate_install)
PathsRender ==
    /\ pc = "paths:render"
    /\ cfg' = [valid      |-> TRUE,
               rendered   |-> TRUE,
               identifier |-> render_str(IF Truthy(args.identifier) THEN args.identifier.items
                                         ELSE DefaultIdentifier, TemplateData),
               output     |-> IF Truthy(args.output)
                              THEN List(render_path(args.output.items, TemplateData))
                              ELSE NoneList,
               build_dir  |-> IF Truthy(args.build_dir)
                              THEN render_path(args.build_dir.items, TemplateData)
                              ELSE BUILD_DIR,
               install    |-> render_path_list_of_tuple(args.install.items, TemplateData),
               link       |-> render_path_list_of_tuple(args.link.items, TemplateData)]
    /\ pc' = "paths:prepare"
    /\ UNCHANGED <<pathsFixed, fsops, calls, err, out>>

\* bool(path): a pathlib.Path is truthy whatever it holds
path_is_truthy(path) == TRUE

\* `build_dir = build_dir / "applecrate" / "darwin" if build_dir else BUILD_DIR`
staging_root(build_dir) ==
    IF path_is_truthy(build_dir) THEN build_dir \o <<"applecrate", "darwin">> ELSE BUILD_DIR

\* pathlib's a / b: an absolute b replaces a
path_join(a, b) == IF b # <<>> /\ b[1] \in {"/", "//"} THEN b ELSE a \o b

\* lines 195-199: clean_build_dir and create_build_dirs on the build directory
PathsPrepare ==
    /\ pc = "paths:prepare"
    /\ LET root == staging_root(cfg.build_dir)
       IN  fsops' = fsops \o <<Use("clean_build_dir", "build_dir", root),
                               Use("create_build_dirs", "build_dir", root)>>
    /\ pc' = "paths:stage"
    /\ UNCHANGED <<pathsFixed, cfg, calls, err, out>>

\* lines 224-227 and 241-253: the install files are staged, and the scripts
\* are rendered from data, which holds the links
PathsStage ==
    /\ pc = "paths:stage"
    /\ LET root == staging_root(cfg.build_dir)
           staged == [i \in 1..Len(cfg.install) |->
                         Use("stage", "install destination",
                             path_join(root, stage_install_target(cfg.install[i].dest)))]
           linked == [k \in 1..(2 * Len(cfg.link)) |->
                         IF k % 2 = 1
                         THEN Use("template data", "link source", cfg.link[(k + 1) \div 2].src)
                         ELSE Use("template data", "link target", cfg.link[(k + 1) \div 2].dest)]
       IN  fsops' = fsops \o staged \o linked
    /\ pc' = "paths:pkgbuild"
    /\ UNCHANGED <<pathsFixed, cfg, calls, err, out>>

\* build_package: pkgbuild --identifier identifier ... --root build_dir/darwinpkg
PathsPkgbuild ==
    /\ pc = "paths:pkgbuild"
    /\ calls' = Append(calls, [tool |-> "pkgbuild", identifier |-> cfg.identifier,
                               root |-> staging_root(cfg.build_dir) \o <<"darwinpkg">>])
    /\ pc' = "paths:copy"
    /\ UNCHANGED <<pathsFixed, cfg, fsops, err, out>>

\* lines 296-301: the target path, its parent directory, the copy
PathsCopy ==
    /\ pc = "paths:copy"
    /\ LET target == IF Truthy(cfg.output) THEN cfg.output.items
                     ELSE BUILD_ROOT \o <<args.app \o "-" \o args.version \o ".pkg">>
       IN  fsops' = fsops \o <<Use("mkdir", "output", parent(target)),
                               Use("copy", "output", target)>>
    /\ pc' = "paths:done"
    /\ UNCHANGED <<pathsFixed, cfg, calls, err, out>>

NextPaths ==
    \/ PathsValidate
    \/ PathsRender
    \/ PathsPrepare
    \/ PathsStage
    \/ PathsPkgbuild
    \/ PathsCopy

SpecPaths == InitPaths /\ [][NextPaths]_vars

UsesWhere(op, field) == {i \in 1..Len(fsops) : fsops[i].op = op /\ fsops[i].field = field}

\* the destination of install pair i as it should be staged: rendered, and
\* below darwinpkg
RenderedInstallTarget(i) ==
    LET dest == render_path(args.install.items[i].dest, TemplateData)
    IN  <<"darwinpkg">> \o Tail(dest)

IsSuffix(s, t) == Len(s) <= Len(t) /\ SubSeq(t, Len(t) - Len(s) + 1, Len(t)) = s

\* C13: whenever the identifier, the output path, the build directory, an
\* install destination or a link end is used (looked up or written on the
\* file system, handed to pkgbuild, or handed to the script templates), the
\* text used is the argument rendered against app, version and machine.
C13_RenderedBeforeUse ==
    /\ \A i \in UsesWhere("exists", "output") :
          fsops[i].path = parent(render_path(args.output.items, TemplateData))
    /\ \A i \in UsesWhere("exists", "build_dir") :
          fsops[i].path = render_path(args.build_dir.items, TemplateData)
    /\ \A i \in UsesWhere("copy", "output") :
          Truthy(args.output) => fsops[i].path = render_path(args.output.items, TemplateData)
    /\ \A i \in UsesWhere("clean_build_dir", "build_dir") \cup UsesWhere("create_build_dirs", "build_dir") :
          Truthy(args.build_dir) =>
              IsPrefix(render_path(args.build_dir.items, TemplateData), fsops[i].path)
    /\ \A i \in UsesWhere("stage", "install destination") :
          \E k \in 1..Len(args.install.items) : IsSuffix(RenderedInstallTarget(k), fsops[i].path)
    /\ \A i \in UsesWhere("template data", "link source") :
          \E k \in 1..Len(args.link.items) :
              fsops[i].path = render_path(args.link.items[k].src, TemplateData)
    /\ \A i \in UsesWhere("template data", "link target") :
          \E k \in 1..Len(args.link.items) :
              fsops[i].path = render_path(args.link.items[k].dest, TemplateData)
    /\ \A i \in 1..Len(calls) :
          calls[i].identifier =
              render_str(IF Truthy(args.identifier) THEN args.identifier.items
                         ELSE DefaultIdentifier, TemplateData)

\* C14: a build that succeeds has copied the final artifact to the output
\* path when one was given and to build/<app>-<version>.pkg when none was,
\* after creating the parent directory of that target.
C14_CopiedToTarget ==
    pc = "done" =>
        /\ out.target = IF IsTruthy(cfg.kw["output"]) THEN cfg.kw["output"]
                        ELSE "build/" \o cfg.kw["app"] \o "-" \o cfg.kw["version"] \o ".pkg"
        /\ out.from \in {<<"pkg", ProductName>>, <<"pkg-signed", ProductName>>}
        /\ fsops # <<>>
        /\ fsops[Len(fsops)] = "mkdir target parent"

OnlyAppAndVersion ==
    /\ IsTruthy(Effective["app"])
    /\ IsTruthy(Effective["version"])
    /\ \A f \in Fields \ {"app", "version"} : ~IsTruthy(Effective[f])

IsFile(path) == path \in DOMAIN tree /\ tree[path].kind = "file"

\* C16: for a build given only app and version and accepted as valid, once
\* pkgbuild has been invoked the build tree holds scripts/preinstall,
\* scripts/postinstall, Resources/welcome.html, Resources/conclusion.html
\* and Distribution; and when the build is done the artifact
\* <app>-<version>.pkg exists, in the build tree and at build/.
C16_BasicBuildFiles ==
    (OnlyAppAndVersion /\ cfg.valid) =>
        /\ ~IsTruthy(cfg.kw["sign"])
        /\ Len(calls) >= 1 =>
              /\ calls[1].tool = "pkgbuild"
              /\ IsFile(<<"scripts", "preinstall">>)
              /\ IsFile(<<"scripts", "postinstall">>)
              /\ IsFile(<<"Resources", "welcome.html">>)
              /\ IsFile(<<"Resources", "conclusion.html">>)
              /\ IsFile(<<"Distribution">>)
        /\ pc = "done" =>
              /\ IsFile(<<"pkg", Effective["app"] \o "-" \o Effective["version"] \o ".pkg">>)
              /\ out.target = "build/" \o Effective["app"] \o "-" \o Effective["version"] \o ".pkg"
              /\ out.from = <<"pkg", Effective["app"] \o "-" \o Effective["version"] \o ".pkg">>

C16_Witness ==
    /\ OnlyAppAndVersion
    /\ pc = "done"
    /\ Len(calls) = 2
    /\ IsFile(<<"scripts", "preinstall">>)
    /\ out.target = "build/App-1.0.pkg"

\* C17: once the files are staged, with no_uninstall true the build tree
\* holds no uninstall.sh at all; with no_uninstall false it holds
\* darwinpkg/Library/Application Support/<app>/<version>/uninstall.sh, made
\* from the user's script when one is given and from the built-in template
\* otherwise, with mode 0755.
C17_UninstallScript ==
    InStages("Staged") =>
        IF IsTruthy(cfg.kw["no_uninstall"])
        THEN \A path \in DOMAIN tree : path[Len(path)] # "uninstall.sh"
        ELSE LET path == <<"darwinpkg", "Library", "Application Support",
                           cfg.kw["app"], cfg.kw["version"], "uninstall.sh">>
             IN  /\ IsFile(path)
                 /\ tree[path].mode = "0755"
                 /\ tree[path].from = IF IsTruthy(cfg.kw["uninstall"]) THEN cfg.kw["uninstall"]
                                      ELSE "template:uninstall.sh"
                 /\ \A other \in DOMAIN tree : other[Len(other)] = "uninstall.sh" => other = path

C17_Witness ==
    /\ InStages("Staged")
    /\ cfg.kw["no_uninstall"] = "True"
    /\ "clean_build_dir" = fsops[1]
    /\ <<"scripts", "postinstall">> \in DOMAIN tree

\* C18: once the files are staged, every install mapping (source, D) with
\* an absolute destination D has its source in the build tree at
\* darwinpkg/<D without its leading "/">.
C18_InstallUnderDarwinpkg ==
    InStages("Staged") =>
        LET install == InstallOf(cfg.kw["install"]).items
        IN  \A i \in 1..Len(install) :
                is_absolute(install[i].dest) =>
                    LET path == <<"darwinpkg">> \o Tail(install[i].dest)
                    IN  IsFile(path) /\ tree[path].from = install[i].src

\* the script files of a build tree (the files of scripts/, every
\* uninstall.sh, and Distribution) with what each was made from and its mode
StagedScripts(t) ==
    [path \in {q \in DOMAIN t : /\ t[q].kind = "file"
                                /\ \/ q[1] = "scripts"
                                   \/ q[Len(q)] = "uninstall.sh"
                                   \/ q = <<"Distribution">>} |-> t[path]]

\* what the same inputs stage in a build directory that did not exist
StagedFromNothing ==
    LET items == IF entry = "lib" THEN build_installer_items(cfg.kw) ELSE cli_build_items(cfg.kw)
    IN  WriteItems(create_build_dirs(EmptyTree), items, Len(items))

C20_AppAndVersionSuffice ==
    OnlyAppAndVersion =>
        ~(pc = "failed" /\ err.kind = "validation")

\* the scripts rendered from built-in templates whatever the inputs are
BuiltInScripts == {"preinstall", "postinstall", "links"}

\* C21: after staging, scripts/ holds the three built-in scripts preinstall,
\* postinstall and links, each a file of mode 0755, whichever optional inputs
\* the build was given.
C21_BuiltInScriptsStaged ==
    InStages("Staged") =>
        \A name \in BuiltInScripts :
            /\ IsFile(<<"scripts", name>>)
            /\ tree[<<"scripts", name>>].mode = "0755"

\* C22: what an earlier build left in the build directory is removed before
\* anything is staged: from the creation of the build directories on no entry
\* of the tree is one of the earlier build, and after staging the earlier
\* build's LICENSE.txt, custom_preinstall, uninstall.sh, pkg-signed and stray
\* file are there only if the current build made them.
C22_PreviousBuildRemoved ==
    (\E i \in 1..Len(fsops) : fsops[i] = "create_build_dirs") =>
        /\ \A p \in DOMAIN tree : tree[p].from # "earlier build"
        /\ <<"stale.txt">> \notin DOMAIN tree
        /\ <<"darwinpkg", "uninstall.sh">> \notin DOMAIN tree
        /\ Falsy(cfg.kw["license"]) => <<"Resources", "LICENSE.txt">> \notin DOMAIN tree
        /\ Falsy(cfg.kw["pre_install"]) => <<"scripts", "custom_preinstall">> \notin DOMAIN tree
        /\ ~sign_requested(cfg.kw["sign"]) => <<"pkg-signed">> \notin DOMAIN tree

C22_Witness ==
    /\ InStages("Staged")
    /\ fsops[1] = "clean_build_dir"
    /\ Falsy(cfg.kw["license"])
    /\ <<"Resources", "LICENSE.txt">> \notin DOMAIN tree
    /\ <<"scripts", "preinstall">> \in DOMAIN tree

\* what the build had written into its directory when staging ended: every
\* file when staging succeeded, the files before the first one that could not
\* be read otherwise
WrittenByStaging ==
    LET items == IF entry = "lib" THEN build_installer_items(cfg.kw) ELSE cli_build_items(cfg.kw)
        bad == FirstMissing(items)
    IN  WriteItems(create_build_dirs(EmptyTree), items,
                   IF bad = 0 THEN Len(items) ELSE bad - 1)

\* C23: a build that has failed during staging or in a tool invocation has
\* cleaned nothing up: the build directories, every file staged before the
\* failure and the artifact of every tool that had succeeded are in the build
\* directory as they were written.
C23_NoCleanupOnFailure ==
    (pc = "failed" /\ \E i \in 1..Len(fsops) : fsops[i] = "stage") =>
        /\ \A p \in DOMAIN WrittenByStaging :
              p \in DOMAIN tree /\ tree[p] = WrittenByStaging[p]
        /\ InStages("PackageBuilt") => IsFile(<<"package", cfg.kw["app"] \o ".pkg">>)
        /\ InStages("ProductBuilt") => IsFile(<<"pkg", ProductName>>)

C23_Witness ==
    /\ pc = "failed"
    /\ err.kind = "tool"
    /\ Len(calls) = 2
    /\ calls[2].tool = "productbuild"
    /\ IsFile(<<"scripts", "postinstall">>)
    /\ IsFile(<<"package", cfg.kw["app"] \o ".pkg">>)

\* the tools a build has to run: the two builders, and the two signing tools
\* when a certificate is given to build_installer
RequiredTools ==
    {"pkgbuild", "productbuild"}
    \cup (IF entry = "lib" /\ sign_requested(cfg.kw["sign"])
          THEN {"productsign", "pkgutil"} ELSE {})

\* C24: a build that has failed, in validation, staging, pkgbuild,
\* productbuild, productsign or the signature check, has not written the
\* output path, and the output path is written only when every required tool
\* has been invoked and has returned 0.
C24_OutputOnlyAfterSuccess ==
    /\ pc = "failed" => out = NoOut
    /\ out # NoOut =>
          /\ \A i \in 1..Len(calls) : calls[i].rc = 0
          /\ \A tool \in RequiredTools : Invoked(tool)

C24_Witness ==
    /\ pc = "failed"
    /\ err.kind = "tool"
    /\ Len(calls) = 4
    /\ calls[4].tool = "pkgutil"
    /\ out = NoOut

\* a path relative to the build directory stays in the directory named by its
\* first `under` parts: it is not absolute and no prefix of what follows has
\* more ".." than other parts
StaysUnder(path, under) ==
    /\ Len(path) > under
    /\ path[1] \notin {"/", "//"}
    /\ \A n \in (under + 1)..Len(path) :
          Cardinality({j \in (under + 1)..n : path[j] = ".."}) * 2 <= n - under

\* C25: once the files are staged, every install mapping that passed
\* validation has its source at a path inside darwinpkg of the build
\* directory, and no path the build has written leaves the build directory,
\* destinations with two leading slashes or with ".." parts included.
C25_InstallStaysInBuildDir ==
    InStages("Staged") =>
        /\ \A p \in DOMAIN tree : StaysUnder(p, 0)
        /\ LET install == InstallOf(cfg.kw["install"]).items
           IN  \A i \in 1..Len(install) :
                  \E p \in DOMAIN tree :
                      /\ tree[p].from = install[i].src
                      /\ p[1] = "darwinpkg"
                      /\ StaysUnder(p, 1)

\* the place of a step in the build's flow; a failed build is past every step
StepRank(p) ==
    IF p = "failed" THEN Len(Flow) + 1
    ELSE CHOOSE i \in 1..Len(Flow) : Flow[i] = p

Terminated == pc \in {"done", "failed"}

\* the steps an operation of the build takes up
BuildSteps == {"check_dependencies", "validate", "clean", "mkdirs", "stage", "pkgbuild",
               "productbuild", "sign", "productsign", "pkgutil", "copy"}

\* the run has ended in Finalized: the artifact is copied to the output
EndedFinalized == pc = "done" /\ InStages("Finalized") /\ out # NoOut

\* the run has ended in Failed: an error is raised and nothing is copied
EndedFailed == pc = "failed" /\ err.exc # None /\ ~InStages("Finalized")

\* C27: with every tool invocation returning, a build run terminates in
\* exactly one of Finalized (artifact copied to the output) and Failed (error
\* raised): every step moves the build forward in its flow, a build that has
\* not ended is at a step that some operation takes up, and a build that has
\* ended is in one of the two states; and pkgbuild, productbuild, productsign and pkgutil are each
\* invoked at most once, never again after a failure.
C27_TerminatesFinalizedOrFailed ==
    /\ [][StepRank(pc') > StepRank(pc)]_vars
    /\ [](~Terminated => pc \in BuildSteps)
    /\ [](Terminated => (EndedFinalized /\ ~EndedFailed) \/ (EndedFailed /\ ~EndedFinalized))
    /\ [](\A i, j \in 1..Len(calls) : i # j => calls[i].tool # calls[j].tool)

(***************************************************************************)
(* The staging of the install mappings on a file system: the loop of       *)
(* build_installer_ over stage_install_files, with what pathlib and shutil *)
(* do when a path is already there.                                        *)
(***************************************************************************)
MaxInstalls == 2

\* the sources: two files, and a directory with a file and a subdirectory
SourceFiles == {"app.bin", "lib.so"}
SourceDirs == {"payload"}
SourceTree(src) == (<<"README">> :> "payload/README") @@ (<<"bin">> :> "dir")
                   @@ (<<"bin", "tool">> :> "payload/bin/tool")

UsrLocal == <<"/", "usr", "local">>
UsrLocalBin == <<"/", "usr", "local", "bin">>
InstallDests == {UsrLocal, UsrLocalBin, UsrLocalBinApp, OptApp}

\* the build directory after create_build_dirs, as far as the payload goes
FreshPayload == (<<"darwinpkg">> :> "dir")

FsOk(fs) == [ok |-> TRUE, fs |-> fs, exc |-> None]
FsError(fs, exc) == [ok |-> FALSE, fs |-> fs, exc |-> exc]

Prefixes(path) == {SubSeq(path, 1, n) : n \in 1..Len(path)}
IsDirIn(fs, path) == path \in DOMAIN fs /\ fs[path] = "dir"
IsFileIn(fs, path) == path \in DOMAIN fs /\ fs[path] # "dir"

\* Path.mkdir(parents=True, exist_ok=True): fails when the path or one of its
\* parents is a file
mkdir_parents(fs, dir) ==
    IF \E q \in Prefixes(dir) : IsFileIn(fs, q)
    THEN FsError(fs, IF IsFileIn(fs, dir) THEN "FileExistsError" ELSE "NotADirectoryError")
    ELSE FsOk([q \in Prefixes(dir) |-> "dir"] @@ fs)

\* shutil.copy(src, dst): a dst that is a directory receives the file under
\* the source's name
shutil_copy(fs, src, dst) ==
    LET target == IF IsDirIn(fs, dst) THEN Append(dst, src) ELSE dst
    IN  IF IsDirIn(fs, target) THEN FsError(fs, "IsADirectoryError")
        ELSE FsOk((target :> src) @@ fs)

copy_and_create_parents(fs, src, dst) ==
    LET made == mkdir_parents(fs, parent(dst))
    IN  IF made.ok THEN shutil_copy(made.fs, src, dst) ELSE made

\* shutil.copytree(src, dst): os.makedirs(dst) fails when dst is there or one
\* of its parents is a file; then the entries of src are copied under dst
shutil_copytree(fs, src, dst) ==
    IF dst \in DOMAIN fs THEN FsError(fs, "FileExistsError")
    ELSE IF \E q \in Prefixes(dst) : IsFileIn(fs, q) THEN FsError(fs, "NotADirectoryError")
    ELSE FsOk([q \in {dst \o e : e \in DOMAIN SourceTree(src)} |->
                  SourceTree(src)[SubSeq(q, Len(dst) + 1, Len(q))]]
              @@ [q \in Prefixes(dst) |-> "dir"] @@ fs)

\* stage_install_files(src, dest, build_dir)
stage_install_files(fs, src, dest) ==
    LET target == stage_install_target(dest)
    IN  IF src \in SourceFiles THEN copy_and_create_parents(fs, src, target)
        ELSE shutil_copytree(fs, src, target)

\* `for src, dst in install: stage_install_files(src, dst, build_dir)`, from
\* mapping i on, as long as no call raises
RECURSIVE StageInstalls(_, _, _)
StageInstalls(r, install, i) ==
    IF ~r.ok \/ i > Len(install) THEN r
    ELSE StageInstalls(stage_install_files(r.fs, install[i].src, install[i].dest), install, i + 1)

InstallMappings == [src : SourceFiles \cup SourceDirs, dest : InstallDests]

InitInstalls ==
    /\ pc = "install:loop"
    /\ \E n \in 0..MaxInstalls :
          \E install \in [1..n -> InstallMappings] :
             /\ \A i, j \in 1..n : i # j => install[i].dest # install[j].dest
             /\ fnArg = install
    /\ fnRet = [next |-> 1, staged |-> FsOk(FreshPayload)]
    /\ BuildIdle

\* one round of the loop over the install mappings
StageInstallFiles ==
    /\ pc = "install:loop"
    /\ fnRet.next <= Len(fnArg)
    /\ LET r == stage_install_files(fnRet.staged.fs, fnArg[fnRet.next].src, fnArg[fnRet.next].dest)
       IN  /\ fnRet' = [next |-> IF r.ok THEN fnRet.next + 1 ELSE fnRet.next, staged |-> r]
           /\ pc' = IF r.ok THEN pc ELSE "install:failed"
    /\ UNCHANGED <<fnArg, buildVars>>

\* the loop is over: staging goes on with the uninstall script
InstallsStaged ==
    /\ pc = "install:loop"
    /\ fnRet.next > Len(fnArg)
    /\ pc' = "install:done"
    /\ UNCHANGED <<fnArg, fnRet, buildVars>>

NextInstalls == StageInstallFiles \/ InstallsStaged

SpecInstalls == InitInstalls /\ [][NextInstalls]_vars

\* the orderings of a list
Orderings(list) ==
    {[i \in 1..Len(list) |-> list[perm[i]]] :
        perm \in {f \in [1..Len(list) -> 1..Len(list)] :
                     \A i, j \in 1..Len(list) : i # j => f[i] # f[j]}}

\* C26: staging a list of validated install mappings with pairwise distinct
\* destinations succeeds, and every ordering of the list succeeds with the
\* same payload under darwinpkg, also when one destination is a directory
\* that contains another destination.
C26_OrderIndependentPayload ==
    pc \in {"install:done", "install:failed"} =>
        /\ fnRet.staged.ok
        /\ \A other \in Orderings(fnArg) :
              StageInstalls(FsOk(FreshPayload), other, 1) = fnRet.staged

\* C15: build_installer called without build_dir prepares and stages the
\* build tree at BUILD_DIR, build/applecrate/darwin; called with an existing
\* build_dir X, at X/applecrate/darwin.
C15_BuildTreeLocation ==
    \A i \in UsesWhere("clean_build_dir", "build_dir") \cup UsesWhere("create_build_dirs", "build_dir") :
        fsops[i].path = IF Truthy(args.build_dir)
                        THEN raw_path(args.build_dir.items) \o <<"applecrate", "darwin">>
                        ELSE <<"build", "applecrate", "darwin">>

====
